---- MODULE Spec2Model ----
(***************************************************************************)
(* Model of herebythere/jwts (v0.1/golang): package jwts (jwts.go) and its *)
(* older variant package jwtx (jwtx.go).                                   *)
(*                                                                         *)
(* Text is modelled byte for byte: a Go string is a sequence of byte       *)
(* values (0..255), a token is the byte sequence CreateToken prints, and   *)
(* base64, JSON and decimal formatting are computed, not assumed.  An      *)
(* int64 is its 64-bit two's complement pattern, held as four 16-bit       *)
(* limbs (least significant first), so that + and - wrap as they do in Go. *)
(* The only idealised part is SHA-256: see Hmac.                           *)
(***************************************************************************)
EXTENDS Integers, Sequences, FiniteSets, TLC

(***************************************************************************)
(* Bytes and text                                                          *)
(***************************************************************************)

\* The printable ASCII characters: codes 32 (space) to 95 (_), and codes 97
\* (a) to 126 (~), in order (a string literal cannot hold code 96).
PrintableLow ==
    " !\"#$%&'()*+,-./0123456789:;<=>?@ABCDEFGHIJKLMNOPQRSTUVWXYZ[\\]^_"

PrintableHigh == "abcdefghijklmnopqrstuvwxyz{|}~"

OrdTable ==
    [c \in {SubSeq(PrintableLow, i, i) : i \in 1..Len(PrintableLow)}
            \cup {SubSeq(PrintableHigh, i, i) : i \in 1..Len(PrintableHigh)} |->
        IF \E i \in 1..Len(PrintableLow) : SubSeq(PrintableLow, i, i) = c
        THEN 31 + (CHOOSE i \in 1..Len(PrintableLow) : SubSeq(PrintableLow, i, i) = c)
        ELSE 96 + (CHOOSE i \in 1..Len(PrintableHigh) : SubSeq(PrintableHigh, i, i) = c)]

\* The byte value of a one-character string.
Ord(c) == OrdTable[c]

\* []byte(s): the bytes of a string literal.
B(s) == [i \in 1..Len(s) |-> Ord(SubSeq(s, i, i))]

\* A pointer (or a slice that may be nil) is a tuple: empty when nil, else
\* holding its target.  A nil slice and an empty slice are not told apart:
\* the model builds no empty non-nil slice.
Nil == <<>>

Ptr(x) == <<x>>

Deref(p) == p[1]

\* The nil error; every other error is the name of its Go variable or type.
NoErr == "nil"

\* A value bound once and used by what follows, as a Go short variable
\* declaration does: With(e, LAMBDA x : body) is body with e for x.
With(value, Body(_)) == Body(value)

(***************************************************************************)
(* int64: two's complement in four 16-bit limbs, least significant first   *)
(***************************************************************************)

Limb == 2^16

Zero64 == <<0, 0, 0, 0>>

One64 == <<1, 0, 0, 0>>

MinInt64 == <<0, 0, 0, 2^15>>

MaxInt64 == <<Limb - 1, Limb - 1, Limb - 1, 2^15 - 1>>

\* a + b on int64 (uint64): wraps modulo 2^64.
Add64(a, b) ==
    LET s1 == a[1] + b[1]
        s2 == a[2] + b[2] + (s1 \div Limb)
        s3 == a[3] + b[3] + (s2 \div Limb)
        s4 == a[4] + b[4] + (s3 \div Limb)
    IN  <<s1 % Limb, s2 % Limb, s3 % Limb, s4 % Limb>>

\* -a on int64: wraps (-MinInt64 = MinInt64).
Neg64(a) == Add64([i \in 1..4 |-> Limb - 1 - a[i]], One64)

\* a - b on int64: wraps modulo 2^64.
Sub64(a, b) == Add64(a, Neg64(b))

IsNeg64(a) == a[4] >= 2^15

\* a > 0 and a >= 0 on int64.
Gt0(a) == ~IsNeg64(a) /\ a # Zero64

Ge0(a) == ~IsNeg64(a)

\* The int64 of a small model integer.
I64(n) ==
    LET m == IF n < 0 THEN -n ELSE n
        u == <<m % Limb, (m \div Limb) % Limb, 0, 0>>
    IN  IF n < 0 THEN Neg64(u) ELSE u

\* a < b as unsigned 64-bit numbers.
ULess64(a, b) ==
    \E i \in 1..4 : a[i] < b[i] /\ \A j \in (i + 1)..4 : a[j] = b[j]

\* a < b and a <= b as the integers the int64 patterns stand for.
Less64(a, b) ==
    IF IsNeg64(a) # IsNeg64(b) THEN IsNeg64(a) ELSE ULess64(a, b)

Leq64(a, b) == a = b \/ Less64(a, b)

\* Decimal conversion goes four digits at a time: 10^4 times a limb fits
\* the model's integers.
Group == 10000

\* u div 10^4 and u mod 10^4 of an unsigned 64-bit number.
DivModGroup(u) ==
    LET c4 == u[4]
        c3 == (c4 % Group) * Limb + u[3]
        c2 == (c3 % Group) * Limb + u[2]
        c1 == (c2 % Group) * Limb + u[1]
    IN  [q |-> <<c1 \div Group, c2 \div Group, c3 \div Group, c4 \div Group>>,
         r |-> c1 % Group]

\* The four decimal digits of r < 10^4, and r's digits without the
\* leading zeros.
FourDigits(r) ==
    <<Ord("0") + (r \div 1000), Ord("0") + ((r \div 100) % 10),
      Ord("0") + ((r \div 10) % 10), Ord("0") + (r % 10)>>

FewDigits(r) ==
    SubSeq(FourDigits(r),
           IF r >= 1000 THEN 1 ELSE IF r >= 100 THEN 2
           ELSE IF r >= 10 THEN 3 ELSE 4,
           4)

RECURSIVE UDigits(_)
\* The decimal digits of an unsigned 64-bit number (none for 0).
UDigits(u) ==
    IF u = Zero64 THEN <<>>
    ELSE With(DivModGroup(u), LAMBDA dm :
             IF dm.q = Zero64 THEN FewDigits(dm.r)
             ELSE UDigits(dm.q) \o FourDigits(dm.r))

\* strconv.AppendInt(x, 10), as encoding/json prints an int64.
FormatInt(x) ==
    IF x = Zero64 THEN B("0")
    ELSE IF IsNeg64(x) THEN B("-") \o UDigits(Neg64(x))
    ELSE UDigits(x)

IsDigit(c) == c >= Ord("0") /\ c <= Ord("9")

\* The number that at most four decimal digits write.
GroupValue(ds) ==
    LET D(i) == IF i <= Len(ds) THEN (ds[i] - Ord("0")) * 10^(Len(ds) - i)
                ELSE 0
    IN  D(1) + D(2) + D(3) + D(4)

\* u * m + a for m <= 10^4 and a < 10^4: [u, over], over when the result
\* passes 2^64 - 1.
MulAdd(u, m, a) ==
    LET t1 == u[1] * m + a
        t2 == u[2] * m + (t1 \div Limb)
        t3 == u[3] * m + (t2 \div Limb)
        t4 == u[4] * m + (t3 \div Limb)
    IN  [u |-> <<t1 % Limb, t2 % Limb, t3 % Limb, t4 % Limb>>,
         over |-> t4 >= Limb]

\* The length of the first group of digits: the short one.
FirstGroup(ds) == ((Len(ds) - 1) % 4) + 1

RECURSIVE UParse(_, _)
\* digits -> [u, over]: the unsigned value of the digits after acc, and
\* whether it passed 2^64 - 1; the conversion stops where it does.
UParse(ds, acc) ==
    IF ds = <<>> \/ acc.over THEN acc
    ELSE UParse(SubSeq(ds, FirstGroup(ds) + 1, Len(ds)),
                MulAdd(acc.u, 10^FirstGroup(ds),
                       GroupValue(SubSeq(ds, 1, FirstGroup(ds)))))

\* strconv.ParseInt(s, 10, 64) of an optional sign and digits:
\* [ok, v]; not ok when the value is out of the int64 range.
ParseInt(neg, ds) ==
    LET p == UParse(ds, [u |-> Zero64, over |-> FALSE])
        fits == ~p.over /\ (~IsNeg64(p.u) \/ (neg /\ p.u = MinInt64))
    IN  [ok |-> fits, v |-> IF neg THEN Neg64(p.u) ELSE p.u]

(***************************************************************************)
(* encoding/base64                                                         *)
(***************************************************************************)

\* The standard alphabet (RFC 4648).
B64Alphabet == B("ABCDEFGHIJKLMNOPQRSTUVWXYZabcdefghijklmnopqrstuvwxyz0123456789+/")

B64Index ==
    [c \in {B64Alphabet[i] : i \in 1..64} |->
        (CHOOSE i \in 1..64 : B64Alphabet[i] = c) - 1]

ByteAt(bs, j) == IF j <= Len(bs) THEN bs[j] ELSE 0

\* base64.RawStdEncoding.EncodeToString: six bits per character, the
\* last group zero-filled, no '=' padding.
RawStdEncode(bs) ==
    [k \in 1..((Len(bs) * 8 + 5) \div 6) |->
        LET bit == 6 * (k - 1)
            j   == bit \div 8 + 1
            w   == ByteAt(bs, j) * 256 + ByteAt(bs, j + 1)
        IN  B64Alphabet[((w \div 2^(10 - (bit % 8))) % 64) + 1]]

\* base64.StdEncoding.EncodeToString: the same, '='-padded to a
\* multiple of four characters.
StdEncode(bs) ==
    LET raw == RawStdEncode(bs)
    IN  raw \o [i \in 1..((4 - (Len(raw) % 4)) % 4) |-> Ord("=")]

\* base64.RawStdEncoding.DecodeString: [data, err]; a character outside
\* the alphabet (so also '=') or a dangling single character is corrupt
\* input.
RawStdDecode(s) ==
    IF (\E i \in 1..Len(s) : s[i] \notin DOMAIN B64Index) \/ Len(s) % 4 = 1
    THEN [data |-> <<>>, err |-> "CorruptInputError"]
    ELSE [data |->
            [m \in 1..((Len(s) * 6) \div 8) |->
                LET bit == 8 * (m - 1)
                    k   == bit \div 6 + 1
                IN  ((B64Index[s[k]] * 64 + B64Index[s[k + 1]])
                        \div 2^(4 - (bit % 6))) % 256],
          err |-> NoErr]

(***************************************************************************)
(* encoding/json, for the two structs the package uses.  Strings are the   *)
(* model's plain strings (no character that json escapes), numbers are     *)
(* integers, and there is no white space: what Marshal prints for Header   *)
(* and Claims, and the same grammar read back.                             *)
(***************************************************************************)

\* The zero values of the structs.
ZeroHeader == [Alg |-> <<>>, Typ |-> <<>>]

ZeroClaims ==
    [Aud |-> Nil, Exp |-> Zero64, Iat |-> Zero64, Iss |-> <<>>, Nbf |-> Nil,
     Sub |-> <<>>]

\* A Go string as a JSON string.
MarshalString(str) == B("\"") \o str \o B("\"")

RECURSIVE JoinComma(_)
JoinComma(parts) ==
    IF parts = <<>> THEN <<>>
    ELSE IF Len(parts) = 1 THEN parts[1]
    ELSE parts[1] \o B(",") \o JoinComma(Tail(parts))

\* A []string as JSON: null for the nil slice, else an array.
MarshalStrings(list) ==
    IF list = Nil THEN B("null")
    ELSE B("[") \o JoinComma([i \in 1..Len(list) |-> MarshalString(list[i])])
             \o B("]")

\* json.Marshal of a Header whose field Typ is declared before Alg.
MarshalHeaderTypFirst(h) ==
    B("{\"typ\":") \o MarshalString(h.Typ)
        \o B(",\"alg\":") \o MarshalString(h.Alg) \o B("}")

\* json.Marshal of a Header: the fields in declaration order.
MarshalHeader(h) ==
    B("{\"alg\":") \o MarshalString(h.Alg)
        \o B(",\"typ\":") \o MarshalString(h.Typ) \o B("}")

\* json.Marshal of a Claims: the fields in declaration order, nbf left
\* out when the pointer is nil (omitempty).
MarshalClaims(c) ==
    B("{\"aud\":") \o MarshalStrings(c.Aud)
        \o B(",\"exp\":") \o FormatInt(c.Exp)
        \o B(",\"iat\":") \o FormatInt(c.Iat)
        \o B(",\"iss\":") \o MarshalString(c.Iss)
        \o (IF c.Nbf = Nil THEN <<>>
            ELSE B(",\"nbf\":") \o FormatInt(Deref(c.Nbf)))
        \o B(",\"sub\":") \o MarshalString(c.Sub)
        \o B("}")

\* A failed parse.
NoParse == [ok |-> FALSE, t |-> "none", v |-> Nil, n |-> 0]

At(s, i) == IF i >= 1 /\ i <= Len(s) THEN s[i] ELSE -1

HasAt(s, i, lit) ==
    /\ i + Len(lit) - 1 <= Len(s)
    /\ \A k \in 1..Len(lit) : s[i + k - 1] = lit[k]

\* The string literal that starts at s[i] = '"': it ends at the next '"'.
ParseString(s, i) ==
    LET ends == {j \in (i + 1)..Len(s) : s[j] = Ord("\"")}
    IN  IF At(s, i) # Ord("\"") \/ ends = {} THEN NoParse
        ELSE LET j == CHOOSE e \in ends : \A f \in ends : e <= f
                 body == SubSeq(s, i + 1, j - 1)
             IN  IF \E k \in 1..Len(body) : body[k] = Ord("\\") \/ body[k] < 32
                 THEN NoParse
                 ELSE [ok |-> TRUE, t |-> "string", v |-> body, n |-> j + 1]

\* The number that starts at s[i]: -?(0|[1-9][0-9]*); a fraction or an
\* exponent is no integer.  The value is ParseInt's [ok, v].
ParseNumber(s, i) ==
    LET neg   == At(s, i) = Ord("-")
        first == IF neg THEN i + 1 ELSE i
        stops == {j \in first..(Len(s) + 1) : ~IsDigit(At(s, j))}
        stop  == CHOOSE e \in stops : \A f \in stops : e <= f
        ds    == SubSeq(s, first, stop - 1)
    IN  IF \/ ds = <<>>
           \/ (Len(ds) > 1 /\ ds[1] = Ord("0"))
           \/ At(s, stop) \in {Ord("."), Ord("e"), Ord("E")}
        THEN NoParse
        ELSE [ok |-> TRUE, t |-> "number", v |-> ParseInt(neg, ds), n |-> stop]

RECURSIVE ParseValue(_, _), ParseElems(_, _, _), ParseMembers(_, _, _)
\* The JSON value that starts at s[i]: [ok, t, v, n], n the index after it.
ParseValue(s, i) ==
    CASE At(s, i) = Ord("\"") -> ParseString(s, i)
      [] At(s, i) = Ord("-") \/ IsDigit(At(s, i)) -> ParseNumber(s, i)
      [] HasAt(s, i, B("null")) ->
             [ok |-> TRUE, t |-> "null", v |-> Nil, n |-> i + 4]
      [] HasAt(s, i, B("true")) ->
             [ok |-> TRUE, t |-> "bool", v |-> TRUE, n |-> i + 4]
      [] HasAt(s, i, B("false")) ->
             [ok |-> TRUE, t |-> "bool", v |-> FALSE, n |-> i + 5]
      [] At(s, i) = Ord("[") /\ At(s, i + 1) = Ord("]") ->
             [ok |-> TRUE, t |-> "array", v |-> <<>>, n |-> i + 2]
      [] At(s, i) = Ord("[") /\ At(s, i + 1) # Ord("]") ->
             ParseElems(s, i + 1, <<>>)
      [] At(s, i) = Ord("{") /\ At(s, i + 1) = Ord("}") ->
             [ok |-> TRUE, t |-> "object", v |-> <<>>, n |-> i + 2]
      [] At(s, i) = Ord("{") /\ At(s, i + 1) # Ord("}") ->
             ParseMembers(s, i + 1, <<>>)
      [] OTHER -> NoParse

\* The member "key":value that starts at s[i]: [ok, m, n].
ParseMember(s, i) ==
    LET k == ParseString(s, i)
        e == ParseValue(s, k.n + 1)
    IN  IF k.ok /\ At(s, k.n) = Ord(":") /\ e.ok
        THEN [ok |-> TRUE, m |-> [k |-> k.v, t |-> e.t, v |-> e.v], n |-> e.n]
        ELSE [ok |-> FALSE, m |-> Nil, n |-> 0]

\* The elements of an array from s[i] on, after those in acc.
ParseElems(s, i, acc) ==
    LET e == ParseValue(s, i)
    IN  CASE e.ok /\ At(s, e.n) = Ord(",") ->
                 ParseElems(s, e.n + 1, Append(acc, [t |-> e.t, v |-> e.v]))
          [] e.ok /\ At(s, e.n) = Ord("]") ->
                 [ok |-> TRUE, t |-> "array",
                  v |-> Append(acc, [t |-> e.t, v |-> e.v]), n |-> e.n + 1]
          [] OTHER -> NoParse

\* The members of an object from s[i] on, after those in acc.
ParseMembers(s, i, acc) ==
    LET m == ParseMember(s, i)
    IN  CASE m.ok /\ At(s, m.n) = Ord(",") ->
                 ParseMembers(s, m.n + 1, Append(acc, m.m))
          [] m.ok /\ At(s, m.n) = Ord("}") ->
                 [ok |-> TRUE, t |-> "object", v |-> Append(acc, m.m),
                  n |-> m.n + 1]
          [] OTHER -> NoParse

\* The whole text as one JSON value.
ParseJSON(s) ==
    With(ParseValue(s, 1), LAMBDA p :
        IF p.ok /\ p.n = Len(s) + 1 THEN p ELSE NoParse)

\* The members of an object that set the field with JSON name key.
Members(obj, key) == SelectSeq(obj, LAMBDA m : m.k = B(key))

\* Whether a JSON value can be stored in a field of the given Go type.
Fits(m, type) ==
    \/ m.t = "null"
    \/ type = "string" /\ m.t = "string"
    \/ type = "int64" /\ m.t = "number" /\ m.v.ok
    \/ type = "[]string" /\ m.t = "array"
          /\ \A i \in 1..Len(m.v) : m.v[i].t \in {"string", "null"}

\* The Go value a fitting JSON value stores (null leaves old in place,
\* except that it sets a pointer or a slice to nil).
Stored(m, type, old) ==
    IF m.t = "null" THEN (IF type \in {"string", "int64"} THEN old ELSE Nil)
    ELSE IF type = "int64" THEN m.v.v
    ELSE IF type = "*int64" THEN Ptr(m.v.v)
    ELSE IF type = "[]string"
    THEN [i \in 1..Len(m.v) |-> IF m.v[i].t = "null" THEN <<>> ELSE m.v[i].v]
    ELSE m.v

\* The field's value after decoding obj: the last member that names it.
Field(obj, key, type, old) ==
    LET ms == Members(obj, key)
    IN  IF ms = <<>> THEN old ELSE Stored(ms[Len(ms)], type, old)

\* Whether every member that names the field fits its type.
FieldOK(obj, key, type) ==
    LET ms == Members(obj, key)
        base == IF type = "*int64" THEN "int64" ELSE type
    IN  \A i \in 1..Len(ms) : Fits(ms[i], base)

\* json.Unmarshal(text, &Header{}): [v, err].
UnmarshalHeaderJSON(text) ==
    With(ParseJSON(text), LAMBDA p :
        IF ~p.ok THEN [v |-> ZeroHeader, err |-> "SyntaxError"]
        ELSE IF p.t = "null" THEN [v |-> ZeroHeader, err |-> NoErr]
        ELSE IF p.t # "object" \/ ~FieldOK(p.v, "alg", "string")
                \/ ~FieldOK(p.v, "typ", "string")
        THEN [v |-> ZeroHeader, err |-> "UnmarshalTypeError"]
        ELSE [v |-> [Alg |-> Field(p.v, "alg", "string", <<>>),
                     Typ |-> Field(p.v, "typ", "string", <<>>)],
              err |-> NoErr])

\* json.Unmarshal(text, &Claims{}): [v, err].
UnmarshalClaimsJSON(text) ==
    With(ParseJSON(text), LAMBDA p :
        IF ~p.ok THEN [v |-> ZeroClaims, err |-> "SyntaxError"]
        ELSE IF p.t = "null" THEN [v |-> ZeroClaims, err |-> NoErr]
        ELSE IF \/ p.t # "object"
                \/ ~FieldOK(p.v, "aud", "[]string")
                \/ ~FieldOK(p.v, "exp", "int64")
                \/ ~FieldOK(p.v, "iat", "int64")
                \/ ~FieldOK(p.v, "iss", "string")
                \/ ~FieldOK(p.v, "nbf", "*int64")
                \/ ~FieldOK(p.v, "sub", "string")
        THEN [v |-> ZeroClaims, err |-> "UnmarshalTypeError"]
        ELSE [v |-> [Aud |-> Field(p.v, "aud", "[]string", Nil),
                     Exp |-> Field(p.v, "exp", "int64", Zero64),
                     Iat |-> Field(p.v, "iat", "int64", Zero64),
                     Iss |-> Field(p.v, "iss", "string", <<>>),
                     Nbf |-> Field(p.v, "nbf", "*int64", Nil),
                     Sub |-> Field(p.v, "sub", "string", <<>>)],
              err |-> NoErr])

(***************************************************************************)
(* crypto/hmac with crypto/sha256, idealised: SHA-256 is taken to be       *)
(* collision-free, so the MAC is modelled by an injective function of      *)
(* what HMAC hashes: the key block and the message.  HMAC itself is kept:  *)
(* a key no longer than the block is zero-filled to BlockSize bytes, a     *)
(* longer one is replaced by its hash, for which the key itself stands.    *)
(* The first byte tells the two kinds of key block apart.                  *)
(***************************************************************************)

\* sha256.BlockSize.
BlockSize == 64

\* The key block hmac.New derives from the secret.
HmacKey(secret) ==
    IF Len(secret) <= BlockSize
    THEN <<0>> \o [i \in 1..BlockSize |-> ByteAt(secret, i)]
    ELSE <<1>> \o secret

\* hmac.New(sha256.New, secret); Write(msg); Sum(nil).
Hmac(secret, msg) == HmacKey(secret) \o msg

(***************************************************************************)
(* package jwts (jwts.go)                                                  *)
(***************************************************************************)

dotRune == B(".")

DefaultHeader == [Alg |-> B("HS256"), Typ |-> B("JWT")]

\* json.Marshal of the values the packages encode.
Marshal(source) ==
    CASE source.t = "Header" -> MarshalHeader(source.v)
      [] source.t = "Claims" -> MarshalClaims(source.v)
      [] source.t = "string" -> MarshalString(source.v)
      [] source.t = "bytes"  -> MarshalString(StdEncode(source.v))

\* source: nil, or the value to encode.
encodeJSONToBase64(source) ==
    IF source = Nil THEN [v |-> Nil, err |-> "errSourceIsNil"]
    ELSE [v |-> Ptr(RawStdEncode(Marshal(Deref(source)))), err |-> NoErr]

DefaultHeaderBase64 ==
    encodeJSONToBase64(Ptr([t |-> "Header", v |-> DefaultHeader])).v

\* The package's variables DefaultHeader and DefaultHeaderBase64: exported,
\* set when the package is initialised, and read by CreateToken.
VARIABLE defaults

\* decodeFromBase64 with base64.StdEncoding, which wants the '=' padding:
\* a length that is no multiple of four is corrupt input.
decodeFromBase64Padded(source, err) ==
    IF err # NoErr THEN [v |-> Nil, err |-> err]
    ELSE IF source = Nil THEN [v |-> Nil, err |-> "errSourceIsNil"]
    ELSE With(RawStdDecode(Deref(source)), LAMBDA data64 :
             IF Len(Deref(source)) % 4 # 0
             THEN [v |-> Ptr(<<>>), err |-> "CorruptInputError"]
             ELSE [v |-> Ptr(data64.data), err |-> data64.err])

decodeFromBase64(source, err) ==
    IF err # NoErr THEN [v |-> Nil, err |-> err]
    ELSE IF source = Nil THEN [v |-> Nil, err |-> "errSourceIsNil"]
    ELSE With(RawStdDecode(Deref(source)), LAMBDA data64 :
             [v |-> Ptr(data64.data), err |-> data64.err])

unmarshalHeader(header, err) ==
    IF err # NoErr THEN [v |-> Nil, err |-> err]
    ELSE IF header = Nil THEN [v |-> Nil, err |-> "errHeaderIsNil"]
    ELSE With(UnmarshalHeaderJSON(Deref(header)), LAMBDA headerDetails :
             [v |-> Ptr(headerDetails.v), err |-> headerDetails.err])

unmarshalClaims(claims, err) ==
    IF err # NoErr THEN [v |-> Nil, err |-> err]
    ELSE IF claims = Nil THEN [v |-> Nil, err |-> "errClaimsIsNil"]
    ELSE With(UnmarshalClaimsJSON(Deref(claims)), LAMBDA claimsDetails :
             [v |-> Ptr(claimsDetails.v), err |-> claimsDetails.err])

\* findAudChunk returning from the loop after the first label.
findAudChunkFirstOnly(aud, audTarget, err) ==
    IF err # NoErr THEN [v |-> FALSE, err |-> err]
    ELSE IF audTarget = Nil THEN [v |-> FALSE, err |-> NoErr]
    ELSE [v |-> Len(aud) > 0 /\ aud[1] = Deref(audTarget), err |-> NoErr]

\* aud: the slice *aud points to (the pointer itself is never nil where
\* the function is called).
findAudChunk(aud, audTarget, err) ==
    IF err # NoErr THEN [v |-> FALSE, err |-> err]
    ELSE IF audTarget = Nil THEN [v |-> FALSE, err |-> NoErr]
    ELSE [v |-> \E i \in 1..Len(aud) : aud[i] = Deref(audTarget),
          err |-> NoErr]

\* strings.SplitN(s, ".", 2): the pieces before and after the first dot.
SplitInTwo(str) ==
    LET dots == {i \in 1..Len(str) : str[i] = dotRune[1]}
        first == CHOOSE d \in dots : \A e \in dots : d <= e
    IN  IF dots = {} THEN <<str>>
        ELSE <<SubSeq(str, 1, first - 1), SubSeq(str, first + 1, Len(str))>>

\* strings.Split(s, "."): the pieces between the dots.
Split(str) ==
    LET dots == {i \in 1..Len(str) : str[i] = dotRune[1]}
        cuts == {0} \cup dots \cup {Len(str) + 1}
        Cut(k) == CHOOSE c \in cuts : Cardinality({d \in cuts : d < c}) = k
    IN  [k \in 1..(Cardinality(dots) + 1) |->
            SubSeq(str, Cut(k - 1) + 1, Cut(k) - 1)]

\* parseTokenChunks with the claims and signature indices exchanged.
parseTokenChunksSwapped(token, err) ==
    IF err # NoErr THEN [v |-> Nil, err |-> err]
    ELSE IF token = Nil THEN [v |-> Nil, err |-> "errTokenIsNil"]
    ELSE With(Split(Deref(token)), LAMBDA chunks :
             IF Len(chunks) # 3 THEN [v |-> Nil, err |-> "errInvalidToken"]
             ELSE [v |-> Ptr([Header |-> chunks[1], Claims |-> chunks[3],
                              Signature |-> chunks[2]]),
                   err |-> NoErr])

parseTokenChunks(token, err) ==
    IF err # NoErr THEN [v |-> Nil, err |-> err]
    ELSE IF token = Nil THEN [v |-> Nil, err |-> "errTokenIsNil"]
    ELSE With(Split(Deref(token)), LAMBDA chunks :
             IF Len(chunks) # 3 THEN [v |-> Nil, err |-> "errInvalidToken"]
             ELSE [v |-> Ptr([Header |-> chunks[1], Claims |-> chunks[2],
                              Signature |-> chunks[3]]),
                   err |-> NoErr])

\* validateTokenTimes letting the token through at its not-before second
\* (notBeforeDelta > 0 for >= 0).
validateTokenTimesFromNbf(tokenDetails, err, currentTime) ==
    IF err # NoErr THEN [v |-> FALSE, err |-> err]
    ELSE LET claims == Deref(tokenDetails).Claims
         IN  IF Gt0(Sub64(claims.Iat, currentTime))
             THEN [v |-> FALSE, err |-> NoErr]
             ELSE IF claims.Nbf # Nil
                     /\ Gt0(Sub64(Deref(claims.Nbf), currentTime))
             THEN [v |-> FALSE, err |-> NoErr]
             ELSE [v |-> Gt0(Sub64(claims.Exp, currentTime)), err |-> NoErr]

\* validateTokenTimes reporting expiry as an error, as jwtx does.
validateTokenTimesExpiredError(tokenDetails, err, currentTime) ==
    IF err # NoErr THEN [v |-> FALSE, err |-> err]
    ELSE LET claims == Deref(tokenDetails).Claims
         IN  IF Gt0(Sub64(claims.Iat, currentTime))
             THEN [v |-> FALSE, err |-> NoErr]
             ELSE IF claims.Nbf # Nil
                     /\ Ge0(Sub64(Deref(claims.Nbf), currentTime))
             THEN [v |-> FALSE, err |-> NoErr]
             ELSE IF Gt0(Sub64(claims.Exp, currentTime))
             THEN [v |-> TRUE, err |-> NoErr]
             ELSE [v |-> FALSE, err |-> "errTokenIsExpired"]

\* tokenDetails is not nil where the function is called with a nil err;
\* currentTime is time.Now().Unix().
validateTokenTimes(tokenDetails, err, currentTime) ==
    IF err # NoErr THEN [v |-> FALSE, err |-> err]
    ELSE LET claims == Deref(tokenDetails).Claims
             issueDelta == Sub64(claims.Iat, currentTime)
         IN  IF Gt0(issueDelta) THEN [v |-> FALSE, err |-> NoErr]
             ELSE IF claims.Nbf # Nil
                     /\ Ge0(Sub64(Deref(claims.Nbf), currentTime))
             THEN [v |-> FALSE, err |-> NoErr]
             ELSE IF Gt0(Sub64(claims.Exp, currentTime))
             THEN [v |-> TRUE, err |-> NoErr]
             ELSE [v |-> FALSE, err |-> NoErr]

\* createClaims leaving Nbf nil when the params have no delay, so that
\* omitempty leaves nbf out.
createClaimsNbfOmitted(params, err, nowAsSecond) ==
    IF err # NoErr THEN [v |-> Nil, err |-> err]
    ELSE IF params = Nil THEN [v |-> Nil, err |-> "errNilCreateTokenParams"]
    ELSE LET p == Deref(params)
             claims == [Aud |-> p.Aud, Exp |-> Add64(nowAsSecond, p.Lifetime),
                        Iat |-> nowAsSecond, Iss |-> p.Iss,
                        Nbf |-> IF p.Delay = Nil THEN Nil
                                ELSE Ptr(Add64(nowAsSecond, Deref(p.Delay))),
                        Sub |-> p.Sub]
         IN  encodeJSONToBase64(Ptr([t |-> "Claims", v |-> claims]))

\* nowAsSecond is time.Now().Unix().
createClaims(params, err, nowAsSecond) ==
    IF err # NoErr THEN [v |-> Nil, err |-> err]
    ELSE IF params = Nil THEN [v |-> Nil, err |-> "errNilCreateTokenParams"]
    ELSE LET p == Deref(params)
             expiration == Add64(nowAsSecond, p.Lifetime)
             notBefore == IF p.Delay # Nil
                          THEN Add64(nowAsSecond, Deref(p.Delay))
                          ELSE Zero64
             claims == [Aud |-> p.Aud, Exp |-> expiration, Iat |-> nowAsSecond,
                        Iss |-> p.Iss, Nbf |-> Ptr(notBefore), Sub |-> p.Sub]
         IN  encodeJSONToBase64(Ptr([t |-> "Claims", v |-> claims]))

createSignature(header, claims, secret, err) ==
    IF err # NoErr THEN [v |-> Nil, err |-> err]
    ELSE IF header = Nil THEN [v |-> Nil, err |-> "errHeaderIsNil"]
    ELSE IF claims = Nil THEN [v |-> Nil, err |-> "errClaimsIsNil"]
    ELSE IF secret = Nil THEN [v |-> Nil, err |-> "errSecretIsNil"]
    ELSE LET headerAndClaims == Deref(header) \o dotRune \o Deref(claims)
             signature == Hmac(Deref(secret), headerAndClaims)
         IN  [v |-> Ptr(RawStdEncode(signature)), err |-> NoErr]

\* What a call that panics (a nil pointer dereference) leaves: no result.
Panic == [panic |-> TRUE, v |-> Nil, err |-> NoErr]

Return(v, err) == [panic |-> FALSE, v |-> v, err |-> err]

\* The call returned (v, err).
Returned(res, v, err) == ~res.panic /\ res.err = err /\ res.v = v

\* parseTokenDetails decoding the signature chunk as well, and returning
\* the error of that.
parseTokenDetailsWithSignature(tokenChunks, err) ==
    IF err # NoErr THEN Return(Nil, err)
    ELSE IF tokenChunks = Nil THEN Return(Nil, "errTokenIsNil")
    ELSE With(decodeFromBase64(Ptr(Deref(tokenChunks).Header), err),
              LAMBDA header :
         With(unmarshalHeader(header.v, header.err),
              LAMBDA headerDetails :
         With(decodeFromBase64(Ptr(Deref(tokenChunks).Claims),
                               headerDetails.err),
              LAMBDA claims :
         With(unmarshalClaims(claims.v, claims.err),
              LAMBDA claimsDetails :
         With(decodeFromBase64(Ptr(Deref(tokenChunks).Signature),
                               claimsDetails.err),
              LAMBDA signature :
             IF headerDetails.v = Nil \/ claimsDetails.v = Nil THEN Panic
             ELSE Return(Ptr([Header |-> Deref(headerDetails.v),
                              Claims |-> Deref(claimsDetails.v)]),
                         signature.err))))))

\* Panics where it copies *headerDetails and *claimsDetails when either
\* is nil.
parseTokenDetails(tokenChunks, err) ==
    IF err # NoErr THEN Return(Nil, err)
    ELSE IF tokenChunks = Nil THEN Return(Nil, "errTokenIsNil")
    ELSE With(decodeFromBase64(Ptr(Deref(tokenChunks).Header), err),
              LAMBDA header :
         With(unmarshalHeader(header.v, header.err),
              LAMBDA headerDetails :
         With(decodeFromBase64(Ptr(Deref(tokenChunks).Claims),
                               headerDetails.err),
              LAMBDA claims :
         With(unmarshalClaims(claims.v, claims.err),
              LAMBDA claimsDetails :
             IF headerDetails.v = Nil \/ claimsDetails.v = Nil THEN Panic
             ELSE Return(Ptr([Header |-> Deref(headerDetails.v),
                              Claims |-> Deref(claimsDetails.v)]),
                         claimsDetails.err)))))

\* validateSignature comparing only the lengths of the two signatures.
validateSignatureByLength(chunks, secret, err) ==
    IF chunks = Nil THEN Panic
    ELSE With(createSignature(Ptr(Deref(chunks).Header),
                              Ptr(Deref(chunks).Claims), secret, err),
              LAMBDA signatureCheck :
             IF signatureCheck.err # NoErr
             THEN Return(FALSE, signatureCheck.err)
             ELSE Return(Len(Deref(chunks).Signature)
                             = Len(Deref(signatureCheck.v)),
                         NoErr))

\* Panics where it takes &chunks.Header of a nil chunks, before err is
\* looked at.
validateSignature(chunks, secret, err) ==
    IF chunks = Nil THEN Panic
    ELSE With(createSignature(Ptr(Deref(chunks).Header),
                              Ptr(Deref(chunks).Claims), secret, err),
              LAMBDA signatureCheck :
             IF signatureCheck.err # NoErr
             THEN Return(FALSE, signatureCheck.err)
             ELSE Return(Deref(chunks).Signature = Deref(signatureCheck.v),
                         NoErr))

\* clock is what time.Now().Unix() returns during the call.
CreateToken(params, secret, err, clock) ==
    IF secret = Nil THEN Return(Nil, "errSecretIsNil")
    ELSE With(createClaims(params, err, clock), LAMBDA claims :
         With(createSignature(defaults.DefaultHeaderBase64, claims.v,
                              secret, claims.err),
              LAMBDA signature :
             IF signature.err # NoErr THEN Return(Nil, signature.err)
             ELSE Return(Ptr(Deref(defaults.DefaultHeaderBase64) \o dotRune
                                 \o Deref(claims.v) \o dotRune
                                 \o Deref(signature.v)),
                         NoErr)))

\* Panics where it takes &tokenDetails.Claims.Aud of a nil tokenDetails.
VerifyToken(token, audTarget, err, clock) ==
    With(parseTokenChunks(token, err), LAMBDA chunks :
    With(parseTokenDetails(chunks.v, chunks.err), LAMBDA tokenDetails :
        IF tokenDetails.panic \/ tokenDetails.v = Nil THEN Panic
        ELSE With(findAudChunk(Deref(tokenDetails.v).Claims.Aud, audTarget,
                               tokenDetails.err),
                  LAMBDA audChunk :
                 IF ~audChunk.v THEN Return(FALSE, audChunk.err)
                 ELSE With(validateTokenTimes(tokenDetails.v, audChunk.err,
                                              clock),
                           LAMBDA times : Return(times.v, times.err)))))

ValidateToken(token, secret, err) ==
    With(parseTokenChunks(token, err), LAMBDA chunks :
        validateSignature(chunks.v, secret, chunks.err))

(***************************************************************************)
(* package jwtx (jwtx.go).  decodeFromBase64, unmarshalHeader and          *)
(* unmarshalClaims are the same code as in jwts.go and are not repeated.   *)
(***************************************************************************)

periodRune == B(".")

randomLength == 128

headerDefaultParams == [Alg |-> B("HS256"), Typ |-> B("JWT")]

encodeToBase64(source) ==
    IF source = Nil THEN [v |-> Nil, err |-> "errSourceIsNil"]
    ELSE [v |-> Ptr(RawStdEncode(Marshal(Deref(source)))), err |-> NoErr]

headerBase64 ==
    encodeToBase64(Ptr([t |-> "Header", v |-> headerDefaultParams])).v

\* random: the n bytes rand.Read fills in (it returns no error).
generateRandomByteArray(n, err, random) ==
    IF err # NoErr THEN [v |-> Nil, err |-> err]
    ELSE [v |-> Ptr(random), err |-> NoErr]

\* The signature is encoded as JSON: a []byte is a quoted, padded base64
\* string, which is then base64-encoded like every other segment.
generateSignature(header, claims, secret, err) ==
    IF err # NoErr THEN [v |-> Nil, err |-> err]
    ELSE IF header = Nil THEN [v |-> Nil, err |-> "errHeaderIsNil"]
    ELSE IF claims = Nil THEN [v |-> Nil, err |-> "errClaimsIsNil"]
    ELSE IF secret = Nil THEN [v |-> Nil, err |-> "errSecretIsNil"]
    ELSE LET headerAndClaims == Deref(header) \o periodRune \o Deref(claims)
             signature == Hmac(Deref(secret), headerAndClaims)
         IN  encodeToBase64(Ptr([t |-> "bytes", v |-> signature]))

createJWTClaims(params, err, nowAsSecond) ==
    IF err # NoErr THEN [v |-> Nil, err |-> err]
    ELSE IF params = Nil THEN [v |-> Nil, err |-> "errNilCreateParams"]
    ELSE LET p == Deref(params)
             expiration == Add64(nowAsSecond, p.Lifetime)
             notBefore == IF p.Delay # Nil
                          THEN Add64(nowAsSecond, Deref(p.Delay))
                          ELSE Zero64
             claims == [Aud |-> p.Aud, Exp |-> expiration, Iat |-> nowAsSecond,
                        Iss |-> p.Iss, Nbf |-> Ptr(notBefore), Sub |-> p.Sub]
         IN  encodeToBase64(Ptr([t |-> "Claims", v |-> claims]))

retrieveTokenChunks(token, err) ==
    IF err # NoErr THEN [v |-> Nil, err |-> err]
    ELSE IF token = Nil THEN [v |-> Nil, err |-> "errTokenIsNil"]
    ELSE With(Split(Deref(token)), LAMBDA chunks :
             IF Len(chunks) # 3 THEN [v |-> Nil, err |-> "errInvalidToken"]
             ELSE [v |-> Ptr([Header |-> chunks[1], Claims |-> chunks[2],
                              Signature |-> chunks[3]]),
                   err |-> NoErr])

\* jwtx's findAudChunk(aud *[]string, audTarget string) bool.
findAudChunkX(aud, audTarget) == \E i \in 1..Len(aud) : aud[i] = audTarget

\* The token CreateJWT and CreateJWTFromSecret print from the three
\* pointers: a panic when claims or signature is nil.
PayloadOf(claims, secret, signature, errSignature) ==
    IF claims = Nil \/ signature = Nil THEN Panic
    ELSE Return(Ptr([Token |-> Ptr(Deref(headerBase64) \o periodRune
                                       \o Deref(claims) \o periodRune
                                       \o Deref(signature)),
                     Secret |-> secret, Signature |-> signature]),
                errSignature)

CreateJWT(params, err, clock, random) ==
    IF err # NoErr THEN Return(Nil, err)
    ELSE With(createJWTClaims(params, NoErr, clock), LAMBDA claims :
         With(generateRandomByteArray(randomLength, claims.err, random),
              LAMBDA secret :
         With(generateSignature(headerBase64, claims.v, secret.v, secret.err),
              LAMBDA signature :
             PayloadOf(claims.v, secret.v, signature.v, signature.err))))

\* The secret parameter is assigned the random bytes before it is used.
CreateJWTFromSecret(params, secret, err, clock, random) ==
    IF err # NoErr THEN Return(Nil, err)
    ELSE IF secret = Nil THEN Return(Nil, "errSecretIsNil")
    ELSE With(createJWTClaims(params, NoErr, clock), LAMBDA claims :
         With(generateRandomByteArray(randomLength, claims.err, random),
              LAMBDA secret2 :
         With(generateSignature(headerBase64, claims.v, secret2.v,
                                secret2.err),
              LAMBDA signature :
             PayloadOf(claims.v, secret2.v, signature.v, signature.err))))

\* Panics where it takes &chunks.Header of a nil chunks and where it reads
\* *signature of a nil signature.
ValidateJWT(tokenPayload, err) ==
    IF err # NoErr THEN Return(FALSE, err)
    ELSE IF tokenPayload = Nil THEN Return(FALSE, "errTokenPayloadIsNil")
    ELSE With(retrieveTokenChunks(Deref(tokenPayload).Token, NoErr),
              LAMBDA chunks :
             IF chunks.v = Nil THEN Panic
             ELSE With(generateSignature(Ptr(Deref(chunks.v).Header),
                                         Ptr(Deref(chunks.v).Claims),
                                         Deref(tokenPayload).Secret,
                                         chunks.err),
                       LAMBDA signature :
                      IF signature.v = Nil THEN Panic
                      ELSE Return(Deref(signature.v)
                                      = Deref(chunks.v).Signature,
                                  signature.err)))

\* Panics where it takes &chunks.Header of a nil chunks.  TokenDetails
\* holds the two pointers, nil or not.
RetrieveTokenDetails(token, err) ==
    IF err # NoErr THEN Return(Nil, err)
    ELSE IF token = Nil THEN Return(Nil, "errTokenIsNil")
    ELSE With(retrieveTokenChunks(token, NoErr), LAMBDA chunks :
             IF chunks.v = Nil THEN Panic
             ELSE With(decodeFromBase64(Ptr(Deref(chunks.v).Header),
                                        chunks.err),
                       LAMBDA header :
                  With(unmarshalHeader(header.v, header.err),
                       LAMBDA headerDetails :
                  With(decodeFromBase64(Ptr(Deref(chunks.v).Claims),
                                        headerDetails.err),
                       LAMBDA claims :
                  With(unmarshalClaims(claims.v, claims.err),
                       LAMBDA claimsDetails :
                      Return(Ptr([Header |-> headerDetails.v,
                                  Claims |-> claimsDetails.v]),
                             claimsDetails.err))))))

\* ValidateTokenByWindowAndAud letting the token through at its expiry
\* second (lifetime >= 0 for > 0).
ValidateTokenByWindowAndAudAtExpiry(token, audTarget, err, clock) ==
    With(RetrieveTokenDetails(token, err), LAMBDA tokenDetails :
        IF tokenDetails.panic THEN Panic
        ELSE IF tokenDetails.err # NoErr THEN Return(FALSE, tokenDetails.err)
        ELSE IF tokenDetails.v = Nil THEN Return(FALSE, "errNilTokenDetails")
        ELSE With(Deref(Deref(tokenDetails.v).Claims), LAMBDA claims :
                 IF ~findAudChunkX(claims.Aud, audTarget)
                 THEN Return(FALSE, "errAudChunkNotFound")
                 ELSE IF Gt0(Sub64(claims.Iat, clock))
                 THEN Return(FALSE, "errTokenIssuedBeforeNow")
                 ELSE IF claims.Nbf # Nil
                         /\ Ge0(Sub64(Deref(claims.Nbf), clock))
                 THEN Return(FALSE, "errTokenUsedBeforeExpected")
                 ELSE IF Ge0(Sub64(claims.Exp, clock))
                 THEN Return(TRUE, NoErr)
                 ELSE Return(FALSE, "errTokenIsExpired")))

\* audTarget is a string here, not a pointer.
ValidateTokenByWindowAndAud(token, audTarget, err, clock) ==
    With(RetrieveTokenDetails(token, err), LAMBDA tokenDetails :
        IF tokenDetails.panic THEN Panic
        ELSE IF tokenDetails.err # NoErr THEN Return(FALSE, tokenDetails.err)
        ELSE IF tokenDetails.v = Nil THEN Return(FALSE, "errNilTokenDetails")
        ELSE With(Deref(Deref(tokenDetails.v).Claims), LAMBDA claims :
                 IF ~findAudChunkX(claims.Aud, audTarget)
                 THEN Return(FALSE, "errAudChunkNotFound")
                 ELSE IF Gt0(Sub64(claims.Iat, clock))
                 THEN Return(FALSE, "errTokenIssuedBeforeNow")
                 ELSE IF claims.Nbf # Nil
                         /\ Ge0(Sub64(Deref(claims.Nbf), clock))
                 THEN Return(FALSE, "errTokenUsedBeforeExpected")
                 ELSE IF Gt0(Sub64(claims.Exp, clock))
                 THEN Return(TRUE, NoErr)
                 ELSE Return(FALSE, "errTokenIsExpired")))

(***************************************************************************)
(* A caller of the package: it obtains one token, from CreateToken or from *)
(* the outside, and calls VerifyToken and ValidateToken on it while the    *)
(* wall clock advances.  The calls are synchronous: the caller takes the   *)
(* outcome of one call (last) before it makes the next.                    *)
(***************************************************************************)

\* The wall clock (seconds since the epoch) when the caller starts, and
\* the last second modelled.
ClockStart == 1

MaxNow == 4

\* CreateTokenParams.Lifetime ranges over -1..MaxLifetime and the largest
\* int64, .Delay over nil and 0..MaxDelay.
MaxLifetime == 3

MaxDelay == 1

Auds == {Nil, <<B("a")>>, <<B("a"), B("b")>>}

ParamsSet ==
    {Nil} \cup
    {Ptr([Aud |-> aud, Iss |-> B("i"), Sub |-> B("s"),
          Lifetime |-> lifetime, Delay |-> delay]) :
        aud \in Auds,
        lifetime \in {I64(l) : l \in -1..MaxLifetime} \cup {MaxInt64},
        delay \in {Nil} \cup {Ptr(I64(d)) : d \in 0..MaxDelay}}

\* The secret the caller signs with (or none), and the secrets it
\* validates with; <<1, 0>> is <<1>> with a zero byte appended.
SignSecrets == {Nil, Ptr(<<1>>)}

Secrets == SignSecrets \cup {Ptr(<<1, 0>>), Ptr(<<2>>)}

Targets == {Nil, Ptr(B("a")), Ptr(B("b"))}

\* The err argument every function takes: nil, or an error of an earlier
\* call.
Errs == {NoErr, "errEarlier"}

\* Claims a token from the outside may carry.
OutsideClaims ==
    {[Aud |-> <<B("a")>>, Exp |-> exp, Iat |-> iat, Iss |-> B("i"),
      Nbf |-> nbf, Sub |-> B("s")] :
        exp \in {MinInt64, I64(3), MaxInt64},
        iat \in {MinInt64, I64(1), MaxInt64},
        nbf \in {Nil, Ptr(MinInt64), Ptr(I64(2)), Ptr(MaxInt64)}}

Enc(text) == RawStdEncode(text)

\* Tokens from the outside: well-formed ones with the claims above, and
\* malformed ones (two and four segments, no segment, a header or a claims
\* segment that is not base64 or not JSON).
OutsideTokens ==
    LET h == Deref(DefaultHeaderBase64)
        c == Enc(MarshalClaims(CHOOSE x \in OutsideClaims : TRUE))
        sig == B("c2ln")
    IN  {h \o dotRune \o Enc(MarshalClaims(x)) \o dotRune \o sig :
            x \in OutsideClaims}
        \cup {h \o dotRune \o c,
              h \o dotRune \o c \o dotRune \o sig \o dotRune \o sig,
              <<>>,
              B("!") \o dotRune \o c \o dotRune \o sig,
              Enc(B("{")) \o dotRune \o c \o dotRune \o sig,
              h \o dotRune \o B("!") \o dotRune \o sig,
              h \o dotRune \o Enc(B("{\"aud\":")) \o dotRune \o sig,
              h \o dotRune \o Enc(B("{\"aud\":1}")) \o dotRune \o sig,
              h \o dotRune \o Enc(B("null")) \o dotRune \o sig}

VARIABLES
    now,    \* the wall clock, in seconds
    token,  \* the caller's *string token (nil before it has one)
    made,   \* how the token was made: by, and CreateToken's arguments
    last    \* the last call: its name, arguments and outcome

vars == <<now, token, made, last, defaults>>

NoCall ==
    [op |-> "none", params |-> Nil, secret |-> Nil, audTarget |-> Nil,
     err |-> NoErr, res |-> Return(Nil, NoErr)]

NotMade == [by |-> "none", params |-> Nil, secret |-> Nil, iat |-> 0]

Init ==
    /\ now = ClockStart
    /\ token = Nil
    /\ made = NotMade
    /\ last = NoCall
    /\ defaults = [DefaultHeader |-> DefaultHeader,
                   DefaultHeaderBase64 |-> DefaultHeaderBase64]

\* A second passes.
Tick ==
    /\ now < MaxNow
    /\ now' = now + 1
    /\ last' = NoCall
    /\ UNCHANGED <<token, made, defaults>>

\* The caller takes the outcome of the last call.
TakeResult ==
    /\ last.op # "none"
    /\ last' = NoCall
    /\ UNCHANGED <<now, token, made, defaults>>

CallCreateToken(params, secret, err) ==
    /\ made.by = "none"
    /\ last.op = "none"
    /\ With(CreateToken(params, secret, err, I64(now)), LAMBDA res :
            /\ last' = [NoCall EXCEPT !.op = "CreateToken",
                                      !.params = params, !.secret = secret,
                                      !.err = err, !.res = res]
            /\ token' = res.v
            /\ made' = IF res.v = Nil THEN [NotMade EXCEPT !.by = "failed"]
                       ELSE [by |-> "CreateToken", params |-> params,
                             secret |-> secret, iat |-> now])
    /\ UNCHANGED <<now, defaults>>

\* The caller is handed a token it did not create.
ReceiveToken(tok) ==
    /\ made.by = "none"
    /\ last.op = "none"
    /\ token' = Ptr(tok)
    /\ made' = [NotMade EXCEPT !.by = "outside"]
    /\ last' = NoCall
    /\ UNCHANGED <<now, defaults>>

CallVerifyToken(audTarget, err) ==
    /\ last.op = "none"
    /\ last' = [NoCall EXCEPT !.op = "VerifyToken", !.audTarget = audTarget,
                              !.err = err,
                              !.res = VerifyToken(token, audTarget, err,
                                                  I64(now))]
    /\ UNCHANGED <<now, token, made, defaults>>

\* jwtx's window-and-audience check, called on the same token.
CallValidateTokenByWindowAndAud(audTarget, err) ==
    /\ last.op = "none"
    /\ last' = [NoCall EXCEPT !.op = "ValidateTokenByWindowAndAud",
                              !.audTarget = Ptr(audTarget), !.err = err,
                              !.res = ValidateTokenByWindowAndAud(
                                          token, audTarget, err, I64(now))]
    /\ UNCHANGED <<now, token, made, defaults>>

CallValidateToken(secret, err) ==
    /\ last.op = "none"
    /\ last' = [NoCall EXCEPT !.op = "ValidateToken", !.secret = secret,
                              !.err = err,
                              !.res = ValidateToken(token, secret, err)]
    /\ UNCHANGED <<now, token, made, defaults>>

Next ==
    \/ Tick
    \/ TakeResult
    \/ \E params \in ParamsSet, secret \in SignSecrets, err \in Errs :
           CallCreateToken(params, secret, err)
    \/ \E tok \in OutsideTokens : ReceiveToken(tok)
    \/ \E audTarget \in Targets, err \in Errs : CallVerifyToken(audTarget, err)
    \/ \E audTarget \in Targets \ {Nil}, err \in Errs :
           CallValidateTokenByWindowAndAud(Deref(audTarget), err)
    \/ \E secret \in Secrets, err \in Errs : CallValidateToken(secret, err)

Spec == Init /\ [][Next]_vars

(***************************************************************************)
(* A token that is changed on its way: one character of one segment is     *)
(* replaced, and the receiver validates what arrives.                      *)
(***************************************************************************)

\* The characters put in place of a token's: the dot, two characters of
\* the base64 alphabet and one outside it.
TamperChars == {Ord("."), Ord("A"), Ord("B"), Ord("!")}

TamperParams ==
    {Ptr([Aud |-> <<B("a")>>, Iss |-> B("i"), Sub |-> B("s"),
          Lifetime |-> I64(MaxLifetime), Delay |-> delay]) :
        delay \in {Nil, Ptr(I64(MaxDelay))}}

\* The character at pos, which is not one of the two separating dots, is
\* replaced by a different character c.
Tamper(pos, c) ==
    /\ made.by = "CreateToken"
    /\ last.op = "none"
    /\ Deref(token)[pos] \notin {dotRune[1], c}
    /\ token' = Ptr([Deref(token) EXCEPT ![pos] = c])
    /\ made' = [made EXCEPT !.by = "tampered"]
    /\ UNCHANGED <<now, last, defaults>>

NextTamper ==
    \/ TakeResult
    \/ \E params \in TamperParams :
           CallCreateToken(params, Ptr(<<1>>), NoErr)
    \/ /\ token # Nil
       /\ \E pos \in 1..Len(Deref(token)), c \in TamperChars : Tamper(pos, c)
    \/ \E secret \in Secrets : CallValidateToken(secret, NoErr)

SpecTamper == Init /\ [][NextTamper]_vars

(***************************************************************************)
(* A caller of package jwtx: it obtains a token payload from CreateJWT or  *)
(* CreateJWTFromSecret, and calls ValidateJWT and                          *)
(* ValidateTokenByWindowAndAud on it while the wall clock advances.        *)
(***************************************************************************)

\* What rand.Read may fill the randomLength bytes with.
RandomBytes ==
    {[i \in 1..randomLength |-> 7], [i \in 1..randomLength |-> i % 256]}

JWTParamsSet ==
    {Nil} \cup
    {Ptr([Aud |-> <<B("a")>>, Iss |-> B("i"), Sub |-> B("s"),
          Lifetime |-> I64(lifetime), Delay |-> delay]) :
        lifetime \in {0, MaxLifetime},
        delay \in {Nil, Ptr(I64(MaxDelay))}}

\* The caller's token and what is known of its making, from the payload a
\* creating call returned: made.secret is the payload's Secret.
PayloadMade(by, params, res) ==
    /\ token' = IF res.v = Nil THEN Nil ELSE Deref(res.v).Token
    /\ made' = IF res.v = Nil THEN [NotMade EXCEPT !.by = "failed"]
               ELSE [by |-> by, params |-> params,
                     secret |-> Deref(res.v).Secret, iat |-> now]

CallCreateJWT(params, err, random) ==
    /\ made.by = "none"
    /\ last.op = "none"
    /\ With(CreateJWT(params, err, I64(now), random), LAMBDA res :
            /\ last' = [NoCall EXCEPT !.op = "CreateJWT", !.params = params,
                                      !.err = err, !.res = res]
            /\ PayloadMade("CreateJWT", params, res))
    /\ UNCHANGED <<now, defaults>>

CallCreateJWTFromSecret(params, secret, err, random) ==
    /\ made.by = "none"
    /\ last.op = "none"
    /\ With(CreateJWTFromSecret(params, secret, err, I64(now), random),
            LAMBDA res :
            /\ last' = [NoCall EXCEPT !.op = "CreateJWTFromSecret",
                                      !.params = params, !.secret = secret,
                                      !.err = err, !.res = res]
            /\ PayloadMade("CreateJWTFromSecret", params, res))
    /\ UNCHANGED <<now, defaults>>

\* The payload the caller validates: its token, with the secret it holds
\* for it, or no payload.
CallValidateJWT(secret, absent, err) ==
    /\ last.op = "none"
    /\ With(IF absent THEN Nil
            ELSE Ptr([Token |-> token, Secret |-> secret,
                      Signature |-> IF token = Nil \/ Len(Split(Deref(token))) # 3
                                    THEN Nil
                                    ELSE Ptr(Split(Deref(token))[3])]),
            LAMBDA tokenPayload :
            last' = [NoCall EXCEPT !.op = "ValidateJWT", !.secret = secret,
                                   !.err = err,
                                   !.res = ValidateJWT(tokenPayload, err)])
    /\ UNCHANGED <<now, token, made, defaults>>

NextJWT ==
    \/ Tick
    \/ TakeResult
    \/ \E params \in JWTParamsSet, err \in Errs, random \in RandomBytes :
           CallCreateJWT(params, err, random)
    \/ \E params \in JWTParamsSet, secret \in SignSecrets, err \in Errs,
          random \in RandomBytes :
           CallCreateJWTFromSecret(params, secret, err, random)
    \/ \E secret \in {made.secret} \cup SignSecrets, absent \in BOOLEAN,
          err \in Errs :
           CallValidateJWT(secret, absent, err)
    \/ \E audTarget \in Targets \ {Nil}, err \in Errs :
           CallValidateTokenByWindowAndAud(Deref(audTarget), err)

SpecJWT == Init /\ [][NextJWT]_vars

(***************************************************************************)
(* Properties                                                              *)
(***************************************************************************)

\* The last call was op, with a nil err argument.
Called(op) == last.op = op /\ last.err = NoErr

\* The caller's token is one CreateToken returned.
Created == made.by = "CreateToken"

\* C1: round trip.  CreateToken with params and a secret (and no earlier
\* error) returns a token and no error, and ValidateToken on that token
\* with the same secret returns true and no error, whatever the clock
\* shows by then.
RoundTripValidates ==
    /\ Called("CreateToken") /\ last.params # Nil /\ last.secret # Nil
           => ~last.res.panic /\ last.res.err = NoErr /\ last.res.v # Nil
    /\ Called("ValidateToken") /\ Created /\ last.secret = made.secret
           => Returned(last.res, TRUE, NoErr)

\* A created token was validated with its own secret, after the clock
\* had moved on.
RoundTripWitness ==
    /\ Called("ValidateToken") /\ Created /\ last.secret = made.secret
    /\ now > made.iat
    /\ Returned(last.res, TRUE, NoErr)

\* The token has a number of dot-separated segments other than three.
Malformed == token # Nil /\ Len(Split(Deref(token))) # 3

\* C2: malformed input.  On a token that has not exactly three segments,
\* VerifyToken and ValidateToken return false and errInvalidToken.
MalformedTokenIsAnError ==
    (Called("VerifyToken") \/ Called("ValidateToken")) /\ Malformed
        => Returned(last.res, FALSE, "errInvalidToken")

\* C3: no operation is fatal.  Every call returns to its caller; none
\* panics on a nil intermediate result.
NoCallPanics == ~last.res.panic

TamperedTokenRejected ==
    Called("ValidateToken") /\ made.by = "tampered"
        /\ last.secret = made.secret
        => Returned(last.res, FALSE, NoErr)

\* What holds of C5: the same, when the replacing character is not a dot
\* (the token still has three segments).
TamperedInPlaceRejected ==
    Called("ValidateToken") /\ made.by = "tampered" /\ ~Malformed
        /\ last.secret = made.secret
        => Returned(last.res, FALSE, NoErr)

\* The token's header and claims decode: what parseTokenDetails returns
\* for it, and whether that is a result without error.
Details == parseTokenDetails(parseTokenChunks(token, NoErr).v,
                             parseTokenChunks(token, NoErr).err)

Decodable == ~Details.panic /\ Details.err = NoErr

TokenClaims == Deref(Details.v).Claims

\* The audience target of the last call is a label of aud.
TargetIn(aud) ==
    /\ last.audTarget # Nil
    /\ \E i \in 1..Len(aud) : aud[i] = Deref(last.audTarget)

\* Of a created token: its params, its age in seconds, and whether its
\* not-before instant has passed (nbf < now; nbf is 0 without a delay) and
\* its expiry has not (now < exp), as integers, from the params.
MadeParams == Deref(made.params)

Age == now - made.iat

NotBeforePassed ==
    IF MadeParams.Delay = Nil THEN now > 0
    ELSE Less64(Deref(MadeParams.Delay), I64(Age))

Unexpired == Less64(I64(Age), MadeParams.Lifetime)

\* C6: the acceptance predicate.  On a token that decodes, VerifyToken
\* returns true exactly when the target is in aud, iat <= now, nbf is
\* absent or nbf < now, and exp > now; and a token created with a
\* positive lifetime and no delay is accepted in the second it was
\* created, for every label of its aud.
AcceptedIffInWindow ==
    /\ Called("VerifyToken") /\ Decodable
           => (Returned(last.res, TRUE, NoErr)
                 <=> /\ TargetIn(TokenClaims.Aud)
                     /\ Leq64(TokenClaims.Iat, I64(now))
                     /\ \/ TokenClaims.Nbf = Nil
                        \/ Less64(Deref(TokenClaims.Nbf), I64(now))
                     /\ Less64(I64(now), TokenClaims.Exp))
    /\ Called("VerifyToken") /\ Created /\ Age = 0
           /\ Gt0(MadeParams.Lifetime) /\ MadeParams.Delay = Nil
           /\ TargetIn(MadeParams.Aud)
           => Returned(last.res, TRUE, NoErr)

\* The last call was a policy verification, of either package.
PolicyCall == Called("VerifyToken") \/ Called("ValidateTokenByWindowAndAud")

\* The outcome of a policy verification that rejects with the error jwtx
\* names; jwts.VerifyToken gives the same rejection a nil error.
Rejected(errX) ==
    IF last.op = "VerifyToken" THEN Returned(last.res, FALSE, NoErr)
    ELSE Returned(last.res, FALSE, errX)

\* A created token with a delay d and a lifetime above d, verified for a
\* label of its aud.
DelayedCase ==
    /\ PolicyCall /\ Created /\ MadeParams.Delay # Nil
    /\ Less64(Deref(MadeParams.Delay), MadeParams.Lifetime)
    /\ TargetIn(MadeParams.Aud)

\* C7, as the code has it: such a token is rejected (used before
\* expected) from its creation up to and including the second iat + d,
\* and accepted at every later second before exp.
DelayWindow ==
    DelayedCase =>
        IF ~NotBeforePassed THEN Rejected("errTokenUsedBeforeExpected")
        ELSE Unexpired => Returned(last.res, TRUE, NoErr)

\* A delayed token was verified in the very second iat + d.
DelayWindowWitness ==
    /\ DelayedCase /\ Called("ValidateTokenByWindowAndAud")
    /\ MadeParams.Delay = Ptr(I64(MaxDelay)) /\ Age = MaxDelay
    /\ Returned(last.res, FALSE, "errTokenUsedBeforeExpected")

\* C7, as claimed: rejected before iat + d, accepted from iat + d on
\* (while now < exp), the second iat + d included.
DelayWindowFromDelay ==
    DelayedCase =>
        IF Less64(I64(Age), Deref(MadeParams.Delay))
        THEN Rejected("errTokenUsedBeforeExpected")
        ELSE Unexpired => Returned(last.res, TRUE, NoErr)

\* A created token with lifetime 0, verified for a label of its aud.
ZeroLifetimeCase ==
    /\ PolicyCall /\ Created /\ MadeParams.Lifetime = Zero64
    /\ TargetIn(MadeParams.Aud)

\* C8, as the code has it: such a token is rejected in the second it was
\* created and in every later one; jwtx reports errTokenIsExpired (and
\* errTokenUsedBeforeExpected while a delay keeps nbf >= now),
\* jwts.VerifyToken reports false with a nil error.
ZeroLifetimeRejected ==
    ZeroLifetimeCase =>
        IF NotBeforePassed THEN Rejected("errTokenIsExpired")
        ELSE Rejected("errTokenUsedBeforeExpected")

\* A token with lifetime 0 was verified after the second it was created
\* in, and reported expired.
ZeroLifetimeWitness ==
    /\ ZeroLifetimeCase /\ Called("ValidateTokenByWindowAndAud")
    /\ Age > 0
    /\ Returned(last.res, FALSE, "errTokenIsExpired")

\* C8, as claimed: the rejection carries the expired-token error.
ZeroLifetimeExpiredError ==
    ZeroLifetimeCase => Returned(last.res, FALSE, "errTokenIsExpired")

PolicyRejectionIsNoError ==
    Called("VerifyToken") /\ Decodable /\ ~Returned(last.res, TRUE, NoErr)
        => Returned(last.res, FALSE, NoErr)

\* An expired token was verified for a label of its aud.
PolicyRejectionWitness ==
    /\ Called("VerifyToken") /\ Created /\ TargetIn(MadeParams.Aud)
    /\ NotBeforePassed /\ ~Unexpired
    /\ Returned(last.res, FALSE, NoErr)

\* The token with its third segment replaced by sig.
WithSignature(tok, sig) ==
    Split(tok)[1] \o dotRune \o Split(tok)[2] \o dotRune \o sig

\* Signature segments put in place of a token's: none, one that is no
\* base64, and a well-formed one.
OtherSignatures == {<<>>, B("!"), B("c2ln")}

\* C11: orthogonality of the two checks.  VerifyToken returns the same
\* outcome for a three-segment token and for the same token with another
\* signature segment, for every target, err and clock value; and
\* ValidateToken does not look at the claims or the clock: a created token
\* validates with its secret whatever its params and however late (also
\* when it has expired), and a three-segment token from the outside with
\* a wrong signature is reported false with no error, whatever its claims
\* segment holds.
ChecksAreOrthogonal ==
    /\ last.op = "VerifyToken" /\ token # Nil /\ ~Malformed
           => \A sig \in OtherSignatures :
                  VerifyToken(Ptr(WithSignature(Deref(token), sig)),
                              last.audTarget, last.err, I64(now)) = last.res
    /\ Called("ValidateToken") /\ Created /\ last.secret = made.secret
           /\ ~(NotBeforePassed /\ Unexpired /\ MadeParams.Aud # Nil)
           => Returned(last.res, TRUE, NoErr)
    /\ Called("ValidateToken") /\ made.by = "outside" /\ ~Malformed
           /\ last.secret # Nil
           => Returned(last.res, FALSE, NoErr)

\* A created token was accepted by VerifyToken, as it is with a signature
\* segment that is no base64.
OrthogonalWitness ==
    /\ Called("VerifyToken") /\ Created
    /\ Returned(last.res, TRUE, NoErr)
    /\ VerifyToken(Ptr(WithSignature(Deref(token), B("!"))), last.audTarget,
                   NoErr, I64(now)) = last.res

\* The three segments CreateToken assembled for the caller's token: the
\* cached header, the claims of its params at its clock value, and the
\* signature of the two with its secret.
MadeClaims == createClaims(made.params, NoErr, I64(made.iat)).v

MadeSignature ==
    createSignature(DefaultHeaderBase64, MadeClaims, made.secret, NoErr).v

HasDot(str) == \E i \in 1..Len(str) : str[i] = dotRune[1]

\* C12: three-segment invariant.  A token CreateToken returns without
\* error is three segments joined by two dots, no segment holding a dot,
\* and parseTokenChunks on it returns no error and the chunks Header,
\* Claims and Signature equal to the three segments that were assembled.
ThreeSegments ==
    last.op = "CreateToken" /\ ~last.res.panic /\ last.res.err = NoErr
        => /\ last.res.v # Nil /\ token = last.res.v
           /\ Len(Split(Deref(token))) = 3
           /\ \A k \in 1..3 : ~HasDot(Split(Deref(token))[k])
           /\ parseTokenChunks(token, NoErr)
                  = [v |-> Ptr([Header |-> Deref(DefaultHeaderBase64),
                                Claims |-> Deref(MadeClaims),
                                Signature |-> Deref(MadeSignature)]),
                     err |-> NoErr]

\* CreateToken returned a token, for params with a negative lifetime and
\* a delay, and parseTokenChunks gives back its signature segment.
ThreeSegmentsWitness ==
    /\ Called("CreateToken") /\ Created
    /\ IsNeg64(MadeParams.Lifetime) /\ MadeParams.Delay # Nil
    /\ parseTokenChunks(token, NoErr).err = NoErr
    /\ Deref(parseTokenChunks(token, NoErr).v).Signature
           = Deref(MadeSignature)

\* headerTest64 of the package's tests.
headerTest64 == B("eyJhbGciOiJIUzI1NiIsInR5cCI6IkpXVCJ9")

\* C13: fixed header.  Whatever calls were made, DefaultHeader is
\* {HS256, JWT} and DefaultHeaderBase64 its encoding
\* eyJhbGciOiJIUzI1NiIsInR5cCI6IkpXVCJ9, as they were set at the start,
\* and the first segment of a token CreateToken issued is that encoding,
\* whatever the params and the secret.
FixedHeader ==
    /\ defaults.DefaultHeader = [Alg |-> B("HS256"), Typ |-> B("JWT")]
    /\ defaults.DefaultHeaderBase64 = Ptr(headerTest64)
    /\ Created => Split(Deref(token))[1] = headerTest64

\* A created token has been verified and validated at a later second, the
\* header segment and the cached encoding being what they were.
FixedHeaderWitness ==
    /\ Called("ValidateToken") /\ Created /\ now > made.iat
    /\ MadeParams.Lifetime = MaxInt64
    /\ Split(Deref(token))[1] = headerTest64
    /\ defaults.DefaultHeaderBase64 = Ptr(headerTest64)

\* C14: parse round trip.  For the token CreateToken has just returned,
\* parseTokenChunks and parseTokenDetails return no error and the details
\* of the token: the header {HS256, JWT}, and claims with the iss, sub and
\* aud of the params, iat the clock value of the call and exp - iat (an
\* int64 subtraction) the lifetime of the params.  They do so whether or
\* not the token is inside its time window, and for the same token with a
\* signature segment that is not the token's.
ParseRoundTrip ==
    last.op = "CreateToken" /\ ~last.res.panic /\ last.res.err = NoErr
        => /\ Decodable
           /\ Deref(Details.v).Header = [Alg |-> B("HS256"), Typ |-> B("JWT")]
           /\ TokenClaims.Iss = MadeParams.Iss
           /\ TokenClaims.Sub = MadeParams.Sub
           /\ TokenClaims.Aud = MadeParams.Aud
           /\ TokenClaims.Iat = I64(now)
           /\ Sub64(TokenClaims.Exp, TokenClaims.Iat) = MadeParams.Lifetime
           /\ \A sig \in OtherSignatures :
                  With(parseTokenChunks(
                           Ptr(WithSignature(Deref(token), sig)), NoErr),
                       LAMBDA chunks :
                           parseTokenDetails(chunks.v, chunks.err) = Details)

\* A token with two audience labels and a negative lifetime was created,
\* and its details are those of its params.
ParseRoundTripWitness ==
    /\ Called("CreateToken") /\ Created
    /\ Len(MadeParams.Aud) = 2 /\ IsNeg64(MadeParams.Lifetime)
    /\ Decodable
    /\ TokenClaims.Aud = MadeParams.Aud
    /\ Sub64(TokenClaims.Exp, TokenClaims.Iat) = MadeParams.Lifetime

\* The error the checks of C15 name for claims c at the clock value now,
\* the checks taken in their order and as comparisons of integers: nil
\* when none fails.
FirstFailingCheck(c) ==
    IF ~TargetIn(c.Aud) THEN "errAudChunkNotFound"
    ELSE IF Less64(I64(now), c.Iat) THEN "errTokenIssuedBeforeNow"
    ELSE IF c.Nbf # Nil /\ Leq64(I64(now), Deref(c.Nbf))
    THEN "errTokenUsedBeforeExpected"
    ELSE IF Leq64(c.Exp, I64(now)) THEN "errTokenIsExpired"
    ELSE NoErr

\* C15: order of the policy checks.  ValidateTokenByWindowAndAud on a
\* token that decodes reports the first check that fails, in the order
\* audience, issued in the future (iat > now), not before (nbf present and
\* nbf >= now), expired (exp <= now), and accepts when none does.
ReportsFirstFailingCheck ==
    Called("ValidateTokenByWindowAndAud") /\ Decodable
        => Returned(last.res, FirstFailingCheck(TokenClaims) = NoErr,
                    FirstFailingCheck(TokenClaims))

\* The int64 difference a - now has the sign of the integer difference.
NoWrap(a) == IsNeg64(Sub64(a, I64(now))) <=> Less64(a, I64(now))

\* What holds of C15: the same, for claims whose differences to the clock
\* value do not leave the int64 range.
ReportsFirstFailingCheckInRange ==
    Called("ValidateTokenByWindowAndAud") /\ Decodable
        /\ NoWrap(TokenClaims.Iat) /\ NoWrap(TokenClaims.Exp)
        /\ (TokenClaims.Nbf # Nil => NoWrap(Deref(TokenClaims.Nbf)))
        => Returned(last.res, FirstFailingCheck(TokenClaims) = NoErr,
                    FirstFailingCheck(TokenClaims))

\* Two checks fail at once and the earlier one is reported: a token that
\* is not yet to be used and has expired.
FirstOfTwoReported ==
    /\ Called("ValidateTokenByWindowAndAud") /\ Created
    /\ TargetIn(MadeParams.Aud) /\ ~NotBeforePassed /\ ~Unexpired
    /\ Returned(last.res, FALSE, "errTokenUsedBeforeExpected")

\* C16: error chaining.  CreateToken, VerifyToken and ValidateToken,
\* called with an err that is not nil, return that err and no result (a
\* nil token, false), whatever their other arguments are.
IncomingErrorReturned ==
    /\ last.op = "CreateToken" /\ last.err # NoErr
           => Returned(last.res, Nil, last.err)
    /\ last.op \in {"VerifyToken", "ValidateToken"} /\ last.err # NoErr
           => Returned(last.res, FALSE, last.err)

\* What holds of C16: CreateToken with a secret returns the err it was
\* given, and no token.
IncomingErrorReturnedWithSecret ==
    last.op = "CreateToken" /\ last.err # NoErr /\ last.secret # Nil
        => Returned(last.res, Nil, last.err)

\* The reference claims of the caller's created token, from its params and
\* the clock value iat of its creation.  exp and nbf are sums of integers;
\* the one sum that leaves the int64 range, iat + MaxInt64, is the int64
\* it wraps to: iat - 1 above the least int64.
ReferenceExp ==
    IF MadeParams.Lifetime = MaxInt64
    THEN Add64(MinInt64, I64(made.iat - 1))
    ELSE I64(made.iat
             + (CHOOSE l \in -1..MaxLifetime : I64(l) = MadeParams.Lifetime))

ReferenceNbf ==
    IF MadeParams.Delay = Nil THEN Zero64
    ELSE I64(made.iat
             + (CHOOSE d \in 0..MaxDelay : I64(d) = Deref(MadeParams.Delay)))

ReferenceClaims ==
    [Aud |-> MadeParams.Aud, Exp |-> ReferenceExp, Iat |-> I64(made.iat),
     Iss |-> MadeParams.Iss, Nbf |-> Ptr(ReferenceNbf), Sub |-> MadeParams.Sub]

\* C17: claims construction.  CreateToken with params and a secret (and
\* no earlier error) returns no error, for a lifetime of 0 and a negative
\* one as well, and the claims segment of its token is the encoding of
\* the reference claims: aud, iss and sub of the params, iat = now,
\* exp = now + lifetime, nbf = now + delay, and nbf = 0 (present, not left
\* out) without a delay.  A token without a delay is therefore never
\* rejected as used before expected, and is accepted for a label of its
\* aud as long as it has not expired.
ClaimsAsReference ==
    /\ Called("CreateToken") /\ last.params # Nil /\ last.secret # Nil
           => /\ Returned(last.res, token, NoErr) /\ token # Nil
              /\ Split(Deref(token))[2]
                     = RawStdEncode(MarshalClaims(ReferenceClaims))
    /\ PolicyCall /\ Created /\ MadeParams.Delay = Nil
           => /\ ~Returned(last.res, FALSE, "errTokenUsedBeforeExpected")
              /\ TargetIn(MadeParams.Aud) /\ Unexpired
                     => Returned(last.res, TRUE, NoErr)

\* A token was created with a negative lifetime and no delay: no error,
\* and its claims carry nbf = 0.
ClaimsAsReferenceWitness ==
    /\ Called("CreateToken") /\ Created
    /\ IsNeg64(MadeParams.Lifetime) /\ MadeParams.Delay = Nil
    /\ last.res.err = NoErr
    /\ Decodable /\ TokenClaims.Nbf = Ptr(Zero64)
    /\ TokenClaims.Exp = I64(now - 1)

\* The payload the last call returned.
Payload == Deref(last.res.v)

\* C18: CreateJWTFromSecret with params and a secret of the caller (and
\* no earlier error) returns a payload whose Secret is that secret and
\* whose token is signed with it: the signature of the token's header
\* and claims segments under the caller's secret is the token's third
\* segment.
FromSecretKeepsSecret ==
    Called("CreateJWTFromSecret") /\ last.params # Nil /\ last.secret # Nil
        => /\ ~last.res.panic /\ last.res.err = NoErr /\ last.res.v # Nil
           /\ Payload.Secret = last.secret
           /\ generateSignature(Ptr(Split(Deref(Payload.Token))[1]),
                                Ptr(Split(Deref(Payload.Token))[2]),
                                last.secret, NoErr).v
                  = Ptr(Split(Deref(Payload.Token))[3])

\* What holds of C18: the payload is consistent in itself.  Its Secret is
\* randomLength bytes that rand.Read gave, and ValidateJWT on the payload
\* returns true.
FromSecretSelfConsistent ==
    Called("CreateJWTFromSecret") /\ last.params # Nil /\ last.secret # Nil
        => /\ ~last.res.panic /\ last.res.err = NoErr /\ last.res.v # Nil
           /\ Payload.Secret \in {Ptr(random) : random \in RandomBytes}
           /\ Returned(ValidateJWT(last.res.v, NoErr), TRUE, NoErr)

\* The clock values of the model at which VerifyToken accepts the caller's
\* token for the target of the last call.
AcceptedAt ==
    {t \in ClockStart..MaxNow :
        Returned(VerifyToken(token, last.audTarget, NoErr, I64(t)),
                 TRUE, NoErr)}

\* exp <= iat or exp <= nbf + 1, as integers.
EmptyWindow(c) ==
    \/ Leq64(c.Exp, c.Iat)
    \/ /\ c.Nbf # Nil
       /\ \/ Leq64(c.Exp, Deref(c.Nbf))
          \/ Deref(c.Nbf) # MaxInt64 /\ c.Exp = Add64(Deref(c.Nbf), One64)

\* The verdicts of VerifyToken over time, given the clock values acc at
\* which it accepts the token: acc is one interval; after a rejection
\* with exp <= now there is no acceptance; after an acceptance every
\* rejection is one with exp <= t; and a token with an empty window is
\* accepted at no clock value.
OneInterval(acc) ==
    /\ \A t1, t2, t3 \in ClockStart..MaxNow :
           t1 < t2 /\ t2 < t3 /\ t1 \in acc /\ t3 \in acc => t2 \in acc
    /\ now \notin acc /\ TargetIn(TokenClaims.Aud)
           /\ Leq64(TokenClaims.Exp, I64(now))
           => \A t \in now..MaxNow : t \notin acc
    /\ now \in acc
           => \A t \in now..MaxNow :
                  t \in acc \/ Leq64(TokenClaims.Exp, I64(t))
    /\ EmptyWindow(TokenClaims) => acc = {}

\* C19: acceptance over time.  For a token that decodes and a target, the
\* clock values at which VerifyToken accepts form one interval: once the
\* token is rejected with exp <= now it is rejected at every later clock
\* value, once accepted it is rejected later only as expired, and a token
\* with exp <= iat or exp <= nbf + 1 is never accepted.
AcceptanceIsOneInterval ==
    Called("VerifyToken") /\ Decodable
        => /\ Returned(last.res, now \in AcceptedAt, NoErr)
           /\ With(AcceptedAt, LAMBDA acc : OneInterval(acc))

\* What holds of C19: the same, for claims whose differences to the clock
\* values of the model do not leave the int64 range.
NoWrapEver(a) ==
    \A t \in ClockStart..MaxNow :
        IsNeg64(Sub64(a, I64(t))) <=> Less64(a, I64(t))

AcceptanceIsOneIntervalInRange ==
    Called("VerifyToken") /\ Decodable
        /\ NoWrapEver(TokenClaims.Iat) /\ NoWrapEver(TokenClaims.Exp)
        /\ (TokenClaims.Nbf # Nil => NoWrapEver(Deref(TokenClaims.Nbf)))
        => /\ Returned(last.res, now \in AcceptedAt, NoErr)
           /\ With(AcceptedAt, LAMBDA acc : OneInterval(acc))

\* A created token was accepted at one clock value and is rejected, as
\* expired, at a later one.
AcceptedThenExpired ==
    /\ Called("VerifyToken") /\ Created /\ Age > 0 /\ ~Unexpired
    /\ made.iat \in AcceptedAt /\ now \notin AcceptedAt
    /\ Returned(last.res, FALSE, NoErr)

====
